---- MODULE Spec2Model ----
(***************************************************************************)
(* The two datasource templates of datasource-generator/templates:         *)
(*   datasource_template.py       (one team member)                        *)
(*   team_datasource_template.py  (a whole team)                           *)
(* Each is a Python module of string constants and accessor functions.     *)
(* The files carry {{TOKEN}} placeholders which a generator replaces       *)
(* textually before the file is used; the file is also importable as it    *)
(* stands.  The model covers the file text after substitution, Python's    *)
(* evaluation of its literals, the module globals, the mappings the        *)
(* accessors allocate and what a caller can do with them.                  *)
(*                                                                         *)
(* A Python str is a sequence of characters, one TLA+ string per           *)
(* character; the two non-ASCII characters of the source are written by    *)
(* code point ("U+00B0", "U+2014").                                        *)
(***************************************************************************)
EXTENDS Naturals, Integers, Sequences, FiniteSets, TLC

\* Number of mapping objects the caller can hold at once.
MaxHeap == 2

\* ------------------------------------------------------------------------
\* Python values: str, int, a reference to a dict on the heap, None.
\* ------------------------------------------------------------------------
Str(chars) == [t |-> "str", n |-> 0, s |-> chars]

PyInt(k) == [t |-> "int", n |-> k, s |-> <<>>]

DictRef(r) == [t |-> "dict", n |-> r, s |-> <<>>]

PyNone == [t |-> "none", n |-> 0, s |-> <<>>]

\* ------------------------------------------------------------------------
\* Placeholder tokens and the text of the templates' literals.
\* A literal body is a sequence of items: a character, or the name of a
\* token standing for the text {{NAME}} at that place.
\* ------------------------------------------------------------------------
Tokens ==
  {"CLAAP_CONTENT", "DAILY_CONTENT", "DATE_RANGE", "FATHOM_CONTENT", "GENERATED_DATE", "JIRA_CONTENT", "PROJECT_NAME", "TEAM_MEMBER_NAME", "TOTAL_MEMBERS", "TRANSCRIPT_CONTENT"}

TokenName(t) ==
  CASE t = "CLAAP_CONTENT" -> << "C", "L", "A", "A", "P", "_", "C", "O", "N", "T", "E", "N", "T" >>
    [] t = "DAILY_CONTENT" -> << "D", "A", "I", "L", "Y", "_", "C", "O", "N", "T", "E", "N", "T" >>
    [] t = "DATE_RANGE" -> << "D", "A", "T", "E", "_", "R", "A", "N", "G", "E" >>
    [] t = "FATHOM_CONTENT" -> << "F", "A", "T", "H", "O", "M", "_", "C", "O", "N", "T", "E", "N", "T" >>
    [] t = "GENERATED_DATE" -> << "G", "E", "N", "E", "R", "A", "T", "E", "D", "_", "D", "A", "T", "E" >>
    [] t = "JIRA_CONTENT" -> << "J", "I", "R", "A", "_", "C", "O", "N", "T", "E", "N", "T" >>
    [] t = "PROJECT_NAME" -> << "P", "R", "O", "J", "E", "C", "T", "_", "N", "A", "M", "E" >>
    [] t = "TEAM_MEMBER_NAME" -> << "T", "E", "A", "M", "_", "M", "E", "M", "B", "E", "R", "_", "N", "A", "M", "E" >>
    [] t = "TOTAL_MEMBERS" -> << "T", "O", "T", "A", "L", "_", "M", "E", "M", "B", "E", "R", "S" >>
    [] t = "TRANSCRIPT_CONTENT" -> << "T", "R", "A", "N", "S", "C", "R", "I", "P", "T", "_", "C", "O", "N", "T", "E", "N", "T" >>

\* The text of an unreplaced placeholder as it stands in the file.
TokenText(t) == <<"{", "{">> \o TokenName(t) \o <<"}", "}">>

\* Marks a token the generator has not replaced.
Unsubstituted == <<"<unsubstituted>">>

\* The concatenation of pieces[lo], ..., pieces[hi].
RECURSIVE Flatten(_, _, _)
Flatten(pieces, lo, hi) ==
  IF lo > hi THEN <<>>
  ELSE IF lo = hi THEN pieces[lo]
  ELSE LET mid == (lo + hi) \div 2
       IN  Flatten(pieces, lo, mid) \o Flatten(pieces, mid + 1, hi)

\* The generator's replacement: every token of a literal body gives way to
\* the text chosen for it; a token left alone stays as {{NAME}}.
Substitute(body, e) ==
  Flatten([i \in 1..Len(body) |->
             IF body[i] \in Tokens
             THEN (IF e[body[i]] = Unsubstituted
                   THEN TokenText(body[i]) ELSE e[body[i]])
             ELSE <<body[i]>>],
          1, Len(body))

\* ------------------------------------------------------------------------
\* Python's reading of a (non-f) string literal.
\* ------------------------------------------------------------------------
\* The character(s) an escape sequence \c denotes.  A backslash before a
\* newline continues the line; an unrecognised escape keeps its backslash.
\* The control characters without a TLA+ spelling are written by code
\* point.  Escapes that take further characters (\x, \N, \u, \U, octal) are
\* left to LiteralOK, which does not admit them.
Unescape(c) ==
  CASE c = "n"    -> <<"\n">>
    [] c = "t"    -> <<"\t">>
    [] c = "r"    -> <<"\r">>
    [] c = "f"    -> <<"\f">>
    [] c = "a"    -> <<"U+0007">>
    [] c = "b"    -> <<"U+0008">>
    [] c = "v"    -> <<"U+000B">>
    [] c = "\\"   -> <<"\\">>
    [] c = "\""   -> <<"\"">>
    [] c = "'"    -> <<"'">>
    [] c = "\n"   -> <<>>
    [] OTHER      -> <<"\\", c>>

\* The number of backslashes standing immediately before position i.
RECURSIVE BackslashRun(_, _)
BackslashRun(src, i) ==
  IF i > 1 /\ src[i - 1] = "\\" THEN 1 + BackslashRun(src, i - 1) ELSE 0

\* Position i is taken by the backslash before it: the scan, going left to
\* right and pairing each backslash with the character after it, reaches
\* i - 1 as the first of a pair.
Escaped(src, i) == BackslashRun(src, i) % 2 = 1

\* Position i holds a backslash that starts an escape sequence.
Opens(src, i) == src[i] = "\\" /\ ~Escaped(src, i) /\ i < Len(src)

\* The value of the literal whose body (the text between the quotes) is src.
PyStr(src) ==
  Str(Flatten([i \in 1..Len(src) |->
                 IF Escaped(src, i) THEN <<>>
                 ELSE IF Opens(src, i) THEN Unescape(src[i + 1])
                 ELSE <<src[i]>>],
              1, Len(src)))

\* Whether src is the whole body of one literal of the given kind
\* ("single" for "...", "triple" for """..."""): no closing quote, lone
\* backslash or (single) line end inside it.  A triple-quoted body ending
\* in a quote character is not admitted, nor is an escape that takes
\* further characters.
LiteralOK(kind, src) ==
  /\ \A i \in 1..Len(src) :
       (src[i] = "\\" /\ ~Escaped(src, i)) =>
          /\ i < Len(src)
          /\ src[i + 1] \notin {"x", "N", "u", "U", "0", "1", "2", "3",
                                "4", "5", "6", "7"}
  /\ \A i \in 1..Len(src) :
       (src[i] = "\"" /\ ~Escaped(src, i)) =>
          /\ kind = "triple"
          /\ i < Len(src)
          /\ ~(i + 2 <= Len(src) /\ src[i + 1] = "\"" /\ src[i + 2] = "\"")
  /\ \A i \in 1..Len(src) :
       (src[i] = "\n" /\ ~Escaped(src, i)) => kind = "triple"

\* ------------------------------------------------------------------------
\* Python's evaluation of the expression standing at "total_members".
\* The texts covered: a decimal integer, a name, a set display {expr}.
\* ------------------------------------------------------------------------
Digits == {"0", "1", "2", "3", "4", "5", "6", "7", "8", "9"}

Letters ==
  {"A", "B", "C", "D", "E", "F", "G", "H", "I", "J", "K", "L", "M",
   "N", "O", "P", "Q", "R", "S", "T", "U", "V", "W", "X", "Y", "Z",
   "a", "b", "c", "d", "e", "f", "g", "h", "i", "j", "k", "l", "m",
   "n", "o", "p", "q", "r", "s", "t", "u", "v", "w", "x", "y", "z", "_"}

DigitVal(c) ==
  CASE c = "0" -> 0 [] c = "1" -> 1 [] c = "2" -> 2 [] c = "3" -> 3
    [] c = "4" -> 4 [] c = "5" -> 5 [] c = "6" -> 6 [] c = "7" -> 7
    [] c = "8" -> 8 [] c = "9" -> 9

IsDecimal(src) ==
  /\ Len(src) > 0
  /\ \A i \in 1..Len(src) : src[i] \in Digits
  /\ (src[1] = "0" => \A i \in 1..Len(src) : src[i] = "0")

RECURSIVE DecimalValue(_)
DecimalValue(src) ==
  IF src = <<>> THEN 0
  ELSE DecimalValue(SubSeq(src, 1, Len(src) - 1)) * 10 + DigitVal(src[Len(src)])

IsName(src) ==
  /\ Len(src) > 0
  /\ src[1] \in Letters
  /\ \A i \in 1..Len(src) : src[i] \in Letters \cup Digits

IsDisplay(src) == Len(src) >= 2 /\ src[1] = "{" /\ src[Len(src)] = "}"

Inner(src) == SubSeq(src, 2, Len(src) - 1)

\* Whether the text parses as an expression.
RECURSIVE ExprOK(_)
ExprOK(src) ==
  \/ IsDecimal(src)
  \/ IsName(src)
  \/ IsDisplay(src) /\ ExprOK(Inner(src))

\* The spelling of the names bound at the top level of the team module.
GlobalSpelling(nm) ==
  CASE nm = "JIRA_DATA" -> << "J", "I", "R", "A", "_", "D", "A", "T", "A" >>
    [] nm = "TRANSCRIPT_DATA" -> << "T", "R", "A", "N", "S", "C", "R", "I", "P", "T", "_", "D", "A", "T", "A" >>
    [] nm = "DAILY_REPORTS_DATA" -> << "D", "A", "I", "L", "Y", "_", "R", "E", "P", "O", "R", "T", "S", "_", "D", "A", "T", "A" >>
    [] nm = "get_team_data" -> << "g", "e", "t", "_", "t", "e", "a", "m", "_", "d", "a", "t", "a" >>
    [] nm = "get_team_info" -> << "g", "e", "t", "_", "t", "e", "a", "m", "_", "i", "n", "f", "o" >>
    [] nm = "get_all_content" -> << "g", "e", "t", "_", "a", "l", "l", "_", "c", "o", "n", "t", "e", "n", "t" >>

Returned(v) == [outcome |-> "return", val |-> v]

Raised(exc) == [outcome |-> exc, val |-> PyNone]

PySet == [t |-> "set", n |-> 0, s |-> <<>>]

\* The outcome of evaluating the expression with the module globals g
\* (a function from global names to values).  A name that is no global
\* raises NameError; a set is unhashable, so a display of a set raises
\* TypeError.
RECURSIVE EvalExpr(_, _)
EvalExpr(src, g) ==
  IF IsDecimal(src) THEN Returned(PyInt(DecimalValue(src)))
  ELSE IF IsName(src)
       THEN (IF \E nm \in DOMAIN g : GlobalSpelling(nm) = src
             THEN Returned(g[CHOOSE nm \in DOMAIN g : GlobalSpelling(nm) = src])
             ELSE Raised("NameError"))
  ELSE LET inner == EvalExpr(Inner(src), g)
       IN  IF inner.outcome # "return" THEN inner
           ELSE IF inner.val.t = "set" THEN Raised("TypeError")
           ELSE Returned(PySet)

\* ------------------------------------------------------------------------
\* The literals of the two files.
\* ------------------------------------------------------------------------
JIRA_DATA_literal == <<"JIRA_CONTENT">>

TRANSCRIPT_DATA_literal == <<"TRANSCRIPT_CONTENT">>

DAILY_REPORTS_DATA_literal == <<"DAILY_CONTENT">>

DAILY_TEXT_literal == <<"DAILY_CONTENT">>

JIRA_TEXT_literal == <<"JIRA_CONTENT">>

FATHOM_TEXT_literal == <<"FATHOM_CONTENT">>

CLAAP_TEXT_literal == <<"CLAAP_CONTENT">>

PROJECT_CONTEXT_AND_HEALTH_literal ==
  <<
    "\n", "#", "#", "#", " ", "P", "r", "o", "j", "e", "c", "t", " ", "C", "o", "n",
    "t", "e", "x", "t", "\n", "A", "I", " ", "C", "o", "a", "c", "h", " ", "t", "r",
    "a", "n", "s", "f", "o", "r", "m", "s", " ", "d", "a", "i", "l", "y", " ", "r",
    "e", "p", "o", "r", "t", "s", ",", " ", "m", "e", "e", "t", "i", "n", "g", " ",
    "t", "r", "a", "n", "s", "c", "r", "i", "p", "t", "s", ",", " ", "a", "n", "d",
    " ", "J", "i", "r", "a", " ", "d", "a", "t", "a", " ", "i", "n", "t", "o", " ",
    "c", "o", "a", "c", "h", "i", "n", "g", " ", "i", "n", "s", "i", "g", "h", "t",
    "s", " ", "f", "o", "r", " ", "e", "a", "c", "h", " ", "t", "e", "a", "m", " ",
    "m", "e", "m", "b", "e", "r", " ", "w", "i", "t", "h", "i", "n", " ", "a", " ",
    "s", "p", "e", "c", "i", "f", "i", "c", " ", "d", "a", "t", "e", " ", "r", "a",
    "n", "g", "e", ".", " ", "B", "y", " ", "p", "r", "o", "v", "i", "d", "i", "n",
    "g", " ", "a", " ", "3", "6", "0", "U+00B0", " ", "v", "i", "e", "w", " ", "o", "f",
    " ", "i", "n", "d", "i", "v", "i", "d", "u", "a", "l", " ", "i", "m", "p", "a",
    "c", "t", ",", " ", "c", "h", "a", "l", "l", "e", "n", "g", "e", "s", ",", " ",
    "a", "n", "d", " ", "e", "n", "g", "a", "g", "e", "m", "e", "n", "t", " ", "p",
    "a", "t", "t", "e", "r", "n", "s", ",", " ", "i", "t", " ", "e", "q", "u", "i",
    "p", "s", " ", "m", "a", "n", "a", "g", "e", "r", "s", " ", "t", "o", " ", "w",
    "a", "l", "k", " ", "i", "n", "t", "o", " ", "1", ":", "1", "s", " ", "p", "r",
    "e", "p", "a", "r", "e", "d", " ", "w", "i", "t", "h", " ", "a", "c", "t", "i",
    "o", "n", "a", "b", "l", "e", " ", "i", "d", "e", "a", "s", " ", "o", "n", " ",
    "w", "i", "n", "s", ",", " ", "s", "u", "p", "p", "o", "r", "t", " ", "n", "e",
    "e", "d", "s", ",", " ", "a", "n", "d", " ", "n", "e", "x", "t", " ", "s", "t",
    "e", "p", "s", "U+2014", "t", "u", "r", "n", "i", "n", "g", " ", "s", "c", "a", "t",
    "t", "e", "r", "e", "d", " ", "d", "a", "t", "a", " ", "i", "n", "t", "o", " ",
    "p", "r", "a", "c", "t", "i", "c", "a", "l", " ", "g", "u", "i", "d", "a", "n",
    "c", "e", " ", "f", "o", "r", " ", "m", "o", "r", "e", " ", "e", "f", "f", "e",
    "c", "t", "i", "v", "e", " ", "c", "o", "a", "c", "h", "i", "n", "g", ".", "\n",
    "\n", "#", "#", "#", " ", "P", "r", "o", "j", "e", "c", "t", " ", "H", "e", "a",
    "l", "t", "h", "\n", "-", " ", "*", "*", "T", "e", "a", "m", " ", "P", "e", "r",
    "f", "o", "r", "m", "a", "n", "c", "e", ":", "*", "*", " ", "S", "t", "r", "o",
    "n", "g", " ", "a", "d", "a", "p", "t", "a", "b", "i", "l", "i", "t", "y", " ",
    "a", "n", "d", " ", "e", "x", "e", "c", "u", "t", "i", "o", "n", " ", "s", "p",
    "e", "e", "d", ",", " ", "w", "i", "t", "h", " ", "s", "u", "c", "c", "e", "s",
    "s", "f", "u", "l", " ", "i", "n", "t", "e", "g", "r", "a", "t", "i", "o", "n",
    " ", "o", "f", " ", "L", "a", "n", "g", "C", "h", "a", "i", "n", "/", "L", "a",
    "n", "g", "S", "m", "i", "t", "h", " ", "a", "n", "d", " ", "d", "e", "l", "i",
    "v", "e", "r", "y", " ", "o", "f", " ", "m", "o", "d", "u", "l", "a", "r", " ",
    "p", "r", "o", "m", "p", "t", " ", "c", "h", "a", "i", "n", "s", ".", " ", "M",
    "o", "s", "t", " ", "J", "u", "l", "y", " ", "s", "p", "r", "i", "n", "t", "s",
    " ", "c", "o", "m", "p", "l", "e", "t", "e", "d", " ", "o", "n", " ", "t", "i",
    "m", "e", ".", " ", " ", "\n", "-", " ", "*", "*", "C", "o", "r", "e", " ", "F",
    "r", "u", "s", "t", "r", "a", "t", "i", "o", "n", ":", "*", "*", " ", "T", "e",
    "c", "h", "n", "i", "c", "a", "l", " ", "p", "r", "o", "g", "r", "e", "s", "s",
    " ", "i", "s", " ", "h", "i", "g", "h", ",", " ", "b", "u", "t", " ", "l", "e",
    "a", "d", "e", "r", "s", "h", "i", "p", " ", "i", "s", " ", "f", "r", "u", "s",
    "t", "r", "a", "t", "e", "d", " ", "b", "y", " ", "l", "a", "c", "k", " ", "o",
    "f", " ", "s", "c", "a", "l", "a", "b", "l", "e", " ", "v", "a", "l", "i", "d",
    "a", "t", "i", "o", "n", " ", "d", "u", "e", " ", "t", "o", " ", "m", "a", "n",
    "u", "a", "l", " ", "d", "a", "t", "a", " ", "p", "r", "e", "p", ",", " ", "u",
    "n", "c", "l", "e", "a", "r", " ", "o", "n", "b", "o", "a", "r", "d", "i", "n",
    "g", " ", "w", "o", "r", "k", "f", "l", "o", "w", ",", " ", "a", "n", "d", " ",
    "l", "i", "m", "i", "t", "e", "d", " ", "a", "u", "t", "o", "m", "a", "t", "i",
    "o", "n", ".", "\n", "-", " ", "*", "*", "C", "u", "r", "r", "e", "n", "t", " ",
    "F", "o", "c", "u", "s", ":", "*", "*", " ", "S", "c", "a", "l", "i", "n", "g",
    " ", "f", "e", "e", "d", "b", "a", "c", "k", " ", "v", "a", "l", "i", "d", "a",
    "t", "i", "o", "n", ",", " ", "i", "m", "p", "r", "o", "v", "i", "n", "g", " ",
    "U", "X", " ", "w", "o", "r", "k", "f", "l", "o", "w", "s", ",", " ", "a", "n",
    "d", " ", "b", "u", "i", "l", "d", "i", "n", "g", " ", "a", "u", "t", "o", "m",
    "a", "t", "i", "o", "n", " ", "t", "o", " ", "c", "l", "o", "s", "e", " ", "g",
    "a", "p", " ", "b", "e", "t", "w", "e", "e", "n", " ", "t", "e", "c", "h", "n",
    "i", "c", "a", "l", " ", "c", "a", "p", "a", "b", "i", "l", "i", "t", "i", "e",
    "s", " ", "a", "n", "d", " ", "p", "r", "a", "c", "t", "i", "c", "a", "l", " ",
    "i", "m", "p", "a", "c", "t", ".", "\n" >>

\* The f-string of get_all_content: characters and replacement fields,
\* a field being the name of the global it reads.
get_all_content_literal ==
  <<
    "\n", "#", " ", "J", "I", "R", "A", " ", "T", "e", "a", "m", " ", "R", "e", "p",
    "o", "r", "t", "\n", "JIRA_DATA", "\n", "\n", "#", " ", "T", "e", "a", "m", " ", "T", "r",
    "a", "n", "s", "c", "r", "i", "p", "t", "s", "\n", "TRANSCRIPT_DATA", "\n", "\n", "#", " ", "D",
    "a", "i", "l", "y", " ", "R", "e", "p", "o", "r", "t", "s", "\n", "DAILY_REPORTS_DATA", "\n" >>

\* The "..." literals and the bare expression inside the accessors, one
\* definition for each place of the source.
get_team_data_project_literal == <<"PROJECT_NAME">>

get_team_data_generated_date_literal == <<"GENERATED_DATE">>

\* Variant: project_name of get_team_info written with the date-range token.
get_team_info_project_name_literal_range == <<"DATE_RANGE">>

get_team_info_project_name_literal == <<"PROJECT_NAME">>

get_team_info_date_range_literal == <<"DATE_RANGE">>

get_team_info_total_members_expr == <<"TOTAL_MEMBERS">>

get_team_info_generated_date_literal == <<"GENERATED_DATE">>

get_team_member_info_name_literal == <<"TEAM_MEMBER_NAME">>

get_team_member_info_generated_date_literal == <<"GENERATED_DATE">>

\* The "..." literals by function and key.
SingleLiteral ==
  [c \in {"get_team_data.project", "get_team_data.generated_date",
          "get_team_info.project_name", "get_team_info.date_range",
          "get_team_info.generated_date", "get_team_member_info.name",
          "get_team_member_info.generated_date"} |->
     CASE c = "get_team_data.project" -> get_team_data_project_literal
       [] c = "get_team_data.generated_date" -> get_team_data_generated_date_literal
       [] c = "get_team_info.project_name" -> get_team_info_project_name_literal
       [] c = "get_team_info.date_range" -> get_team_info_date_range_literal
       [] c = "get_team_info.generated_date" -> get_team_info_generated_date_literal
       [] c = "get_team_member_info.name" -> get_team_member_info_name_literal
       [] c = "get_team_member_info.generated_date" ->
            get_team_member_info_generated_date_literal]

TripleLiterals ==
  {JIRA_DATA_literal, TRANSCRIPT_DATA_literal, DAILY_REPORTS_DATA_literal,
   DAILY_TEXT_literal, JIRA_TEXT_literal, FATHOM_TEXT_literal,
   CLAAP_TEXT_literal, PROJECT_CONTEXT_AND_HEALTH_literal}

\* Whether both files, with the tokens replaced as e says, are Python that
\* compiles: every literal is one literal and the expression parses.
Compiles(e) ==
  /\ \A l \in TripleLiterals : LiteralOK("triple", Substitute(l, e))
  /\ \A c \in DOMAIN SingleLiteral :
       LiteralOK("single", Substitute(SingleLiteral[c], e))
  /\ ExprOK(Substitute(get_team_info_total_members_expr, e))

\* ------------------------------------------------------------------------
\* State.
\* ------------------------------------------------------------------------
VARIABLES
  env,                         \* the replacement text of every token
  JIRA_DATA, TRANSCRIPT_DATA, DAILY_REPORTS_DATA,      \* team module globals
  DAILY_TEXT, JIRA_TEXT, FATHOM_TEXT, CLAAP_TEXT,      \* member module globals
  PROJECT_CONTEXT_AND_HEALTH,
  co_consts,                   \* the values of the "..." literals inside the
                               \* accessors, fixed when the file is compiled
  heap,                        \* the dict objects the caller holds
  ret                          \* outcome of the latest accessor call

teamGlobals == <<JIRA_DATA, TRANSCRIPT_DATA, DAILY_REPORTS_DATA>>

memberGlobals ==
  <<DAILY_TEXT, JIRA_TEXT, FATHOM_TEXT, CLAAP_TEXT, PROJECT_CONTEXT_AND_HEALTH>>

vars == <<env, co_consts, teamGlobals, memberGlobals, heap, ret>>

Refs == 1..MaxHeap

NoDict == [k \in {} |-> PyNone]

Free == [live |-> FALSE, d |-> NoDict]

NoCall == [fn |-> "none", outcome |-> "none", val |-> PyNone]

PyFunction == [t |-> "function", n |-> 0, s |-> <<>>]

\* The global namespace of the team module.
TeamNamespace ==
  [nm \in {"JIRA_DATA", "TRANSCRIPT_DATA", "DAILY_REPORTS_DATA",
           "get_team_data", "get_team_info", "get_all_content"} |->
     CASE nm = "JIRA_DATA"          -> JIRA_DATA
       [] nm = "TRANSCRIPT_DATA"    -> TRANSCRIPT_DATA
       [] nm = "DAILY_REPORTS_DATA" -> DAILY_REPORTS_DATA
       [] OTHER                     -> PyFunction]

\* Compiling and importing the two files: the literals inside the
\* functions become constants of their code, the top-level assignments
\* bind the globals.
Import(e) ==
  /\ env = e
  /\ JIRA_DATA = PyStr(Substitute(JIRA_DATA_literal, e))
  /\ TRANSCRIPT_DATA = PyStr(Substitute(TRANSCRIPT_DATA_literal, e))
  /\ DAILY_REPORTS_DATA = PyStr(Substitute(DAILY_REPORTS_DATA_literal, e))
  /\ DAILY_TEXT = PyStr(Substitute(DAILY_TEXT_literal, e))
  /\ JIRA_TEXT = PyStr(Substitute(JIRA_TEXT_literal, e))
  /\ FATHOM_TEXT = PyStr(Substitute(FATHOM_TEXT_literal, e))
  /\ CLAAP_TEXT = PyStr(Substitute(CLAAP_TEXT_literal, e))
  /\ PROJECT_CONTEXT_AND_HEALTH =
       PyStr(Substitute(PROJECT_CONTEXT_AND_HEALTH_literal, e))
  /\ co_consts =
       [c \in DOMAIN SingleLiteral |-> PyStr(Substitute(SingleLiteral[c], e))]
  /\ heap = [r \in Refs |-> Free]
  /\ ret = NoCall

\* ------------------------------------------------------------------------
\* The accessors of team_datasource_template.py.
\* ------------------------------------------------------------------------
\* Variant: get_team_data also reports the date range.
Return_get_team_data_with_range ==
  [k \in {"project", "jira_data", "transcript_data", "daily_reports_data",
          "date_range", "generated_date"} |->
     CASE k = "project"            -> co_consts["get_team_data.project"]
       [] k = "jira_data"          -> JIRA_DATA
       [] k = "transcript_data"    -> TRANSCRIPT_DATA
       [] k = "daily_reports_data" -> DAILY_REPORTS_DATA
       [] k = "date_range"         -> co_consts["get_team_info.date_range"]
       [] k = "generated_date"     -> co_consts["get_team_data.generated_date"]]

\* The dict display of get_team_data.
Return_get_team_data ==
  [k \in {"project", "jira_data", "transcript_data", "daily_reports_data",
          "generated_date"} |->
     CASE k = "project"            -> co_consts["get_team_data.project"]
       [] k = "jira_data"          -> JIRA_DATA
       [] k = "transcript_data"    -> TRANSCRIPT_DATA
       [] k = "daily_reports_data" -> DAILY_REPORTS_DATA
       [] k = "generated_date"     -> co_consts["get_team_data.generated_date"]]

\* Variant: the placeholder of total_members stands inside quotes.
Eval_total_members_quoted ==
  Returned(PyStr(Substitute(get_team_info_total_members_expr, env)))

\* The outcome of evaluating the bare expression of "total_members".
Eval_total_members == EvalExpr(Substitute(get_team_info_total_members_expr, env), TeamNamespace)

\* Variant: get_team_info leaves total_members out.
Return_get_team_info_no_members ==
  [k \in {"project_name", "date_range", "generated_date"} |->
     CASE k = "project_name"   -> co_consts["get_team_info.project_name"]
       [] k = "date_range"     -> co_consts["get_team_info.date_range"]
       [] k = "generated_date" -> co_consts["get_team_info.generated_date"]]

\* The dict display of get_team_info, given the value of total_members.
Return_get_team_info ==
  [k \in {"project_name", "date_range", "total_members", "generated_date"} |->
     CASE k = "project_name"   -> co_consts["get_team_info.project_name"]
       [] k = "date_range"     -> co_consts["get_team_info.date_range"]
       [] k = "total_members"  -> Eval_total_members.val
       [] k = "generated_date" -> co_consts["get_team_info.generated_date"]]

\* An f-string: its characters stand for themselves, a field is replaced
\* by the text of the global it names (every global read here is a str).
RECURSIVE FString(_, _)
FString(body, g) ==
  IF body = <<>> THEN <<>>
  ELSE LET h == Head(body)
       IN  (IF h \in DOMAIN g THEN g[h].s ELSE <<h>>) \o FString(Tail(body), g)

\* Variant: the transcript and daily-report fields stand in each other's place.
Return_get_all_content_reordered ==
  Str(FString(get_all_content_literal,
              [TeamNamespace EXCEPT !["TRANSCRIPT_DATA"] = DAILY_REPORTS_DATA,
                                    !["DAILY_REPORTS_DATA"] = TRANSCRIPT_DATA]))

\* Variant: the combined text opens with the project name.
Return_get_all_content_titled ==
  Str(co_consts["get_team_data.project"].s
        \o FString(get_all_content_literal, TeamNamespace))

Return_get_all_content == Str(FString(get_all_content_literal, TeamNamespace))

\* ------------------------------------------------------------------------
\* The accessors of datasource_template.py.
\* ------------------------------------------------------------------------
\* Variant: the basic template, without the project context section.
Return_get_data_sources_basic ==
  [k \in {"daily_text", "jira_text", "fathom_text", "claap_text"} |->
     CASE k = "daily_text"  -> DAILY_TEXT
       [] k = "jira_text"   -> JIRA_TEXT
       [] k = "fathom_text" -> FATHOM_TEXT
       [] k = "claap_text"  -> CLAAP_TEXT]

\* Variant: daily_text and jira_text carry each other's constant.
Return_get_data_sources_swapped ==
  [k \in {"daily_text", "jira_text", "fathom_text", "claap_text",
          "project_context_and_health"} |->
     CASE k = "daily_text"  -> JIRA_TEXT
       [] k = "jira_text"   -> DAILY_TEXT
       [] k = "fathom_text" -> FATHOM_TEXT
       [] k = "claap_text"  -> CLAAP_TEXT
       [] k = "project_context_and_health" -> PROJECT_CONTEXT_AND_HEALTH]

\* The dict display of get_data_sources.
Return_get_data_sources ==
  [k \in {"daily_text", "jira_text", "fathom_text", "claap_text",
          "project_context_and_health"} |->
     CASE k = "daily_text"  -> DAILY_TEXT
       [] k = "jira_text"   -> JIRA_TEXT
       [] k = "fathom_text" -> FATHOM_TEXT
       [] k = "claap_text"  -> CLAAP_TEXT
       [] k = "project_context_and_health" -> PROJECT_CONTEXT_AND_HEALTH]

\* Variant: get_team_member_info without the date.
Return_get_team_member_info_no_date ==
  [k \in {"name"} |-> co_consts["get_team_member_info.name"]]

\* The dict display of get_team_member_info.
Return_get_team_member_info ==
  [k \in {"name", "generated_date"} |->
     CASE k = "name"            -> co_consts["get_team_member_info.name"]
       [] k = "generated_date"  -> co_consts["get_team_member_info.generated_date"]]

\* ------------------------------------------------------------------------
\* Calls.  A dict display allocates a new dict object; the caller gets a
\* reference to it.
\* ------------------------------------------------------------------------
FreeRefs == {r \in Refs : ~heap[r].live}

\* Variant: the accessor keeps one dict and hands it out again.
NewDict_reused == CHOOSE r \in Refs : \A q \in Refs : r <= q

\* Where a newly created dict is placed: a cell that holds no live object.
NewDict == CHOOSE r \in FreeRefs : \A q \in FreeRefs : r <= q

ReturnDict(fn, d) ==
  /\ FreeRefs # {}
  /\ LET r == NewDict
     IN  /\ heap' = [heap EXCEPT ![r] = [live |-> TRUE, d |-> d]]
         /\ ret' = [fn |-> fn, outcome |-> "return", val |-> DictRef(r)]
  /\ UNCHANGED <<env, co_consts, teamGlobals, memberGlobals>>

get_team_data == ReturnDict("get_team_data", Return_get_team_data)

get_team_info ==
  IF Eval_total_members.outcome = "return"
  THEN ReturnDict("get_team_info", Return_get_team_info)
  ELSE /\ ret' = [fn |-> "get_team_info",
                  outcome |-> Eval_total_members.outcome, val |-> PyNone]
       /\ UNCHANGED <<env, co_consts, teamGlobals, memberGlobals, heap>>

get_all_content ==
  /\ ret' = [fn |-> "get_all_content", outcome |-> "return",
             val |-> Return_get_all_content]
  /\ UNCHANGED <<env, co_consts, teamGlobals, memberGlobals, heap>>

get_data_sources == ReturnDict("get_data_sources", Return_get_data_sources)

get_team_member_info ==
  ReturnDict("get_team_member_info", Return_get_team_member_info)

\* ------------------------------------------------------------------------
\* The caller: a returned dict is an ordinary mutable dict.
\* ------------------------------------------------------------------------
CallerKeys == {"generated_date"}

CallerValues == {Str(<<"!">>)}

\* d[k] = v : adds the key or overwrites its value.
CallerSet(r, k, v) ==
  /\ heap[r].live
  /\ heap' = [heap EXCEPT ![r].d =
                [x \in (DOMAIN @) \cup {k} |-> IF x = k THEN v ELSE @[x]]]
  /\ ret' = NoCall
  /\ UNCHANGED <<env, co_consts, teamGlobals, memberGlobals>>

\* del d[k]
CallerDel(r, k) ==
  /\ heap[r].live
  /\ k \in DOMAIN heap[r].d
  /\ heap' = [heap EXCEPT ![r].d = [x \in (DOMAIN @) \ {k} |-> @[x]]]
  /\ ret' = NoCall
  /\ UNCHANGED <<env, co_consts, teamGlobals, memberGlobals>>

\* The caller drops its last reference; the object is collected.
CallerRelease(r) ==
  /\ heap[r].live
  /\ heap' = [heap EXCEPT ![r] = Free]
  /\ ret' = NoCall
  /\ UNCHANGED <<env, co_consts, teamGlobals, memberGlobals>>

\* ------------------------------------------------------------------------
\* The files the generator can have written.
\* ------------------------------------------------------------------------
RawEnv == [t \in Tokens |-> Unsubstituted]

MemberCounts == {Unsubstituted, <<"3">>, <<"1", "2">>, <<>>}

ProjectNames == {<<"P">>, <<"a", "\"", "b">>}

Filled(members, project) ==
  [t \in Tokens |->
     CASE t = "JIRA_CONTENT"       -> <<"X">>
       [] t = "TRANSCRIPT_CONTENT" -> <<"Y">>
       [] t = "DAILY_CONTENT"      -> <<"Z", "\\", "n">>
       [] t = "FATHOM_CONTENT"     -> <<"F">>
       [] t = "CLAAP_CONTENT"      -> <<>>
       [] t = "TEAM_MEMBER_NAME"   -> <<"A", "n", "a">>
       [] t = "GENERATED_DATE"     -> <<"2", "0", "2", "5">>
       [] t = "DATE_RANGE"         -> <<"J", "u", "l", "y">>
       [] t = "PROJECT_NAME"       -> project
       [] t = "TOTAL_MEMBERS"      -> members]

Generated ==
  {RawEnv} \cup {Filled(m, p) : m \in MemberCounts, p \in ProjectNames}

ContentTexts ==
  {Unsubstituted, <<>>, <<"X">>, <<"Y">>, <<"\\", "n">>, <<"X", "\"">>}

ProjectTexts == {Unsubstituted, <<"P">>, <<"X">>, <<"J", "I", "R", "A">>}

DateTexts == {Unsubstituted, <<"2", "0", "2", "5">>}

TeamFile(j, t, d, p, g, m) ==
  [RawEnv EXCEPT !["JIRA_CONTENT"] = j, !["TRANSCRIPT_CONTENT"] = t,
                 !["DAILY_CONTENT"] = d, !["PROJECT_NAME"] = p,
                 !["GENERATED_DATE"] = g, !["TOTAL_MEMBERS"] = m]

GeneratedTeamFiles ==
  {TeamFile(j, t, d, p, g, m) : j \in ContentTexts, t \in ContentTexts,
     d \in ContentTexts, p \in ProjectTexts, g \in DateTexts,
     m \in {Unsubstituted, <<"3">>}}

\* ------------------------------------------------------------------------
\* Specifications.
\* ------------------------------------------------------------------------
Init == \E e \in {g \in Generated : Compiles(g)} : Import(e)

Next ==
  \/ get_team_data
  \/ get_team_info
  \/ get_all_content
  \/ get_data_sources
  \/ get_team_member_info
  \/ \E r \in Refs, k \in CallerKeys, v \in CallerValues : CallerSet(r, k, v)
  \/ \E r \in Refs, k \in CallerKeys : CallerDel(r, k)
  \/ \E r \in Refs : CallerRelease(r)

Spec == Init /\ [][Next]_vars

\* The team file alone, over a wider range of replacement texts.
InitContent == \E e \in {g \in GeneratedTeamFiles : Compiles(g)} : Import(e)

NextContent ==
  \/ get_team_data
  \/ get_team_info
  \/ get_all_content
  \/ \E r \in Refs : CallerRelease(r)

SpecContent == InitContent /\ [][NextContent]_vars

\* ------------------------------------------------------------------------
\* Properties.
\* ------------------------------------------------------------------------
\* The three fixed headings of the combined text, each with the line
\* breaks around it.
Heading_JIRA ==
  <<"\n", "#", " ", "J", "I", "R", "A", " ", "T", "e", "a", "m", " ", "R", "e", "p", "o", "r", "t", "\n">>

Heading_Transcripts ==
  <<"\n", "\n", "#", " ", "T", "e", "a", "m", " ", "T", "r", "a", "n", "s", "c", "r", "i", "p", "t", "s", "\n">>

Heading_Daily ==
  <<"\n", "\n", "#", " ", "D", "a", "i", "l", "y", " ", "R", "e", "p", "o", "r", "t", "s", "\n">>

\* The combined text for three given section texts.
Combined(jira, transcript, daily) ==
  Heading_JIRA \o jira \o Heading_Transcripts \o transcript
    \o Heading_Daily \o daily \o <<"\n">>

\* sub occurs in txt as a run of consecutive characters.
Occurs(sub, txt) ==
  \E i \in 0..(Len(txt) - Len(sub)) : SubSeq(txt, i + 1, i + Len(sub)) = sub

\* The latest step was a call of fn.
Called(fn) == ret.fn = fn

\* The latest call returned a dict; RetDict is its content.
ReturnedDict == ret.outcome = "return" /\ ret.val.t = "dict"

RetDict == heap[ret.val.n].d

\* Some dict other than the one just returned has been changed by the caller.
OtherDictChanged ==
  \E q \in Refs :
     /\ heap[q].live
     /\ ret.val.t = "dict" => q # ret.val.n
     /\ \E k \in DOMAIN heap[q].d : heap[q].d[k] \in CallerValues

\* C1: get_all_content() returns exactly "\n# JIRA Team Report\n" + jira +
\* "\n\n# Team Transcripts\n" + transcript + "\n\n# Daily Reports\n" + daily
\* + "\n" for the values jira, transcript, daily of the three constants.
C1_AllContentExact ==
  Called("get_all_content") =>
    /\ ret.outcome = "return"
    /\ ret.val = Str(Combined(JIRA_DATA.s, TRANSCRIPT_DATA.s, DAILY_REPORTS_DATA.s))

\* get_all_content() has returned for three different, substituted texts,
\* one of them written with an escape sequence.
C1_Witness ==
  /\ Called("get_all_content")
  /\ JIRA_DATA = Str(<<"X">>)
  /\ TRANSCRIPT_DATA = Str(<<"Y">>)
  /\ DAILY_REPORTS_DATA = Str(<<"\n">>)

C3_DataSourcesKeys ==
  Called("get_data_sources") =>
    /\ ReturnedDict
    /\ DOMAIN RetDict = {"daily_text", "jira_text", "fathom_text",
                         "claap_text", "project_context_and_health"}

\* get_data_sources() has returned while a dict of an earlier call, changed
\* by the caller, is still held.
C3_Witness == Called("get_data_sources") /\ OtherDictChanged

\* C4: get_team_data() returns a mapping whose keys are exactly project,
\* jira_data, transcript_data, daily_reports_data and generated_date.
C4_TeamDataKeys ==
  Called("get_team_data") =>
    /\ ReturnedDict
    /\ DOMAIN RetDict = {"project", "jira_data", "transcript_data",
                         "daily_reports_data", "generated_date"}

\* get_team_data() has returned while a dict of an earlier call, changed by
\* the caller, is still held.
C4_Witness == Called("get_team_data") /\ OtherDictChanged

C6_MemberInfoKeys ==
  Called("get_team_member_info") =>
    /\ ReturnedDict
    /\ DOMAIN RetDict = {"name", "generated_date"}

\* get_team_member_info() has returned while a dict of an earlier call,
\* changed by the caller, is still held.
C6_Witness == Called("get_team_member_info") /\ OtherDictChanged

\* C7: every text value of get_data_sources() and get_team_data() is the
\* corresponding module constant verbatim, what either accessor returns is
\* the same before and after every step (so two calls, whatever happens in
\* between, yield identical content), and no step changes a constant.
C7_VerbatimAndIdempotent ==
  [][ /\ (ret'.fn = "get_data_sources" /\ ret'.val.t = "dict") =>
           LET d == heap'[ret'.val.n].d
           IN  /\ d["daily_text"] = DAILY_TEXT
               /\ d["jira_text"] = JIRA_TEXT
               /\ d["fathom_text"] = FATHOM_TEXT
               /\ d["claap_text"] = CLAAP_TEXT
               /\ d["project_context_and_health"] = PROJECT_CONTEXT_AND_HEALTH
      /\ (ret'.fn = "get_team_data" /\ ret'.val.t = "dict") =>
           LET d == heap'[ret'.val.n].d
           IN  /\ d["jira_data"] = JIRA_DATA
               /\ d["transcript_data"] = TRANSCRIPT_DATA
               /\ d["daily_reports_data"] = DAILY_REPORTS_DATA
      /\ Return_get_data_sources' = Return_get_data_sources
      /\ Return_get_team_data' = Return_get_team_data
      /\ teamGlobals' = teamGlobals
      /\ memberGlobals' = memberGlobals
    ]_vars

\* get_data_sources() has returned a second time, the first dict still
\* held and equal to the second, in a file whose texts were substituted.
C7_Witness ==
  /\ Called("get_data_sources")
  /\ ReturnedDict
  /\ env["DAILY_CONTENT"] # Unsubstituted
  /\ \E q \in Refs \ {ret.val.n} : heap[q].live /\ heap[q].d = RetDict

\* C8: each accessor call creates a fresh mapping, and a caller's change
\* to one mapping touches nothing else.  A call places its dict in a cell
\* that held no live object, leaves every other dict as it was and returns
\* the documented keys with the original values whatever the caller did
\* before; a caller's add, overwrite or removal changes the one dict it is
\* applied to and neither another dict nor a module constant.
C8_FreshMappings ==
  [][ /\ (ret'.fn # "none" /\ ret'.val.t = "dict" /\ heap' # heap) =>
           LET r == ret'.val.n
           IN  /\ ~heap[r].live
               /\ \A q \in Refs \ {r} : heap'[q] = heap[q]
               /\ heap'[r].d =
                    CASE ret'.fn = "get_data_sources" -> Return_get_data_sources
                      [] ret'.fn = "get_team_member_info" -> Return_get_team_member_info
                      [] ret'.fn = "get_team_data" -> Return_get_team_data
                      [] ret'.fn = "get_team_info" -> Return_get_team_info
      /\ (ret'.fn # "none" /\ ret'.val.t = "dict") => heap' # heap
      /\ (ret'.fn = "none" /\ heap' # heap) =>
           Cardinality({q \in Refs : heap'[q] # heap[q]}) = 1
      /\ teamGlobals' = teamGlobals
      /\ memberGlobals' = memberGlobals
    ]_vars

\* A call has returned a dict with its original content while another
\* held dict of the same accessor has lost a key to the caller.
C8_Witness ==
  /\ Called("get_team_data")
  /\ ReturnedDict
  /\ RetDict = Return_get_team_data
  /\ \E q \in Refs \ {ret.val.n} :
        /\ heap[q].live
        /\ "jira_data" \in DOMAIN heap[q].d
        /\ "generated_date" \notin DOMAIN heap[q].d

\* C9: in the team file, for every replacement of the tokens, the project
\* of get_team_data() equals the project_name of get_team_info() and the
\* two generated_date values are equal.
C9_SharedMetadataAgrees ==
  \A a \in Refs, b \in Refs :
     (/\ heap[a].live
      /\ heap[b].live
      /\ "project" \in DOMAIN heap[a].d
      /\ "project_name" \in DOMAIN heap[b].d) =>
        /\ heap[a].d["project"] = heap[b].d["project_name"]
        /\ heap[a].d["generated_date"] = heap[b].d["generated_date"]

\* Both bundles are held, for a replaced project name and date.
C9_Witness ==
  \E a \in Refs, b \in Refs :
     /\ heap[a].live
     /\ heap[b].live
     /\ "project" \in DOMAIN heap[a].d
     /\ "project_name" \in DOMAIN heap[b].d
     /\ heap[a].d["project"] = Str(<<"P">>)
     /\ heap[b].d["generated_date"] = Str(<<"2", "0", "2", "5">>)
     /\ heap[b].d["date_range"] # Str(<<"P">>)

\* The dicts of get_team_data() now held.
TeamDataHeld == {r \in Refs : heap[r].live /\ "jira_data" \in DOMAIN heap[r].d}

\* C10 as stated: the section bodies of get_all_content() are the values
\* of get_team_data(), and the project and generated_date values do not
\* appear in the combined text unless they occur inside one of the three
\* texts.
C10_NoMetadataInCombinedText ==
  Called("get_all_content") =>
    \A r \in TeamDataHeld :
       LET d == heap[r].d
       IN  /\ ret.val.s = Combined(d["jira_data"].s, d["transcript_data"].s,
                                   d["daily_reports_data"].s)
           /\ \A k \in {"project", "generated_date"} :
                 Occurs(d[k].s, ret.val.s) =>
                    \/ Occurs(d[k].s, d["jira_data"].s)
                    \/ Occurs(d[k].s, d["transcript_data"].s)
                    \/ Occurs(d[k].s, d["daily_reports_data"].s)

\* C10 amended: the section bodies of get_all_content() are exactly the
\* values get_team_data() returns under jira_data, transcript_data and
\* daily_reports_data, and the combined text is the fixed headings around
\* those three values and nothing else: project and generated_date are not
\* put into it (their text can still be found in it where it occurs in
\* one of the three texts or happens to be part of a heading).
C10_CombinedTextFromTeamData ==
  Called("get_all_content") =>
    \A r \in TeamDataHeld :
       LET d == heap[r].d
       IN  /\ ret.val.t = "str"
           /\ ret.val.s = Combined(d["jira_data"].s, d["transcript_data"].s,
                                   d["daily_reports_data"].s)

\* get_all_content() has returned while a get_team_data() dict is held,
\* the project name being text of a heading and of none of the sections.
C10_Witness ==
  /\ Called("get_all_content")
  /\ \E r \in TeamDataHeld :
        /\ heap[r].d["project"] = Str(<<"J", "I", "R", "A">>)
        /\ heap[r].d["jira_data"] = Str(<<"X">>)
        /\ heap[r].d["transcript_data"] = Str(<<"Y">>)
====
